---- MODULE Spec2Model ----
(***************************************************************************)
(* Model of the 13F-HR institutional-holdings scripts (src/main.py,        *)
(* src/institution_profile.py) and of the pager of their edgar library.    *)
(*                                                                         *)
(*   Spec     the INSTITUTION FILING loop (main.py 52-79): for every cik,  *)
(*            fetch and parse its filings newest-first with the            *)
(*            consecutive-failure cut-off, then batch-upsert the parsed    *)
(*            filings into form_13f_filing keyed by accession_number.      *)
(*   SpecTwice  the same script run MaxRuns times over an unchanged source *)
(*            and the persisted table.                                     *)
(*   SpecAgg  one pass of the INSTITUTION HOLDING loop body (main.py       *)
(*            110-119): fetch a filing's infotable and derive its          *)
(*            per-ticker holdings records.                                 *)
(*   SpecBackfill  the whole INSTITUTION HOLDING loop (main.py 109-127)    *)
(*            over latest_filings_list[10:], with the upsert of the        *)
(*            records into form_13f_holdings and its fallback.             *)
(*   SpecRank the ranking query (main.py 84-106) called on a table.        *)
(*   SpecCrash  an uninterrupted run, then a run that crashes and is       *)
(*            started again, over the same source.                         *)
(*   SpecProfile  the institution discovery (src/institution_profile.py).  *)
(*   SpecLive the INSTITUTION FILING loop as one thread that keeps         *)
(*            running until the script ends.                               *)
(*   SpecBackfillTwice  the INSTITUTION HOLDING loop run MaxRuns times.    *)
(*   SpecPager  the DataPager of the edgar library (edgar/core.py).        *)
(***************************************************************************)
EXTENDS Integers, Sequences, FiniteSets, TLC

(* ----------------------------- bounds ---------------------------------- *)
NumInst == 2
MaxFilings == 4
MaxRuns == 2
MaxFilingsRerun == 2    \* filings per institution when the script is run again
MaxFilingsLive == 3     \* filings per institution when termination is checked
NumListed == 12         \* rows returned by the ranking query
MaxPositions == 3       \* raw positions of one infotable
NumTickers == 2
Scale == 2              \* raw amounts are counted in units of 1/Scale
MaxRankRows == 3        \* rows of form_13f_filing when the ranking query runs
MaxDate == 2            \* distinct filing dates
MaxCalls == 2           \* calls of the ranking query
NumCompanies == 2       \* company names in the filing index
MaxIndexRows == 3       \* rows of the filing index
MaxPagerRows == 5       \* rows of the data a DataPager pages through
MaxPageSize == 3

(* ------------------------ the Filing Source ---------------------------- *)
\* What one filing of the source does when it is fetched and parsed:
\*   "ok"    .obj() and the field reads of the try block succeed
\*   "fail"  something inside the try block raises
\* Whether the filings of a cik make a batch that the Data Store accepts is a
\* property of their content too (schema mismatch, bad date type).
\* The source is unchanged over the runs; the model reveals it as the script
\* reads it ("unseen" is what no call has looked at yet), and what was read
\* once reads the same from then on.
Outcomes == {"ok", "fail"}
Verdicts == {"accepted", "rejected"}

all_cik == [c \in 1..NumInst |-> c]

\* What the listing call of a cik can turn out to be: it raises, or it returns
\* up to MaxFilings filings, newest first.
Listings ==
    {[listing |-> "raises", filings |-> <<>>, batch |-> "unseen"]}
    \cup {[listing |-> "ok", filings |-> [j \in 1..m |-> "unseen"], batch |-> "unseen"] :
             m \in 0..MaxFilings}

accession_no(c, j) == c * 100 + j

VARIABLES
    source,                 \* the Filing Source, unchanged over the runs
    run,                    \* number of the current run of the script
    pc,                     \* "start" | "list" | "fetch" | "upsert" | "done" | "raised"
    raised,                 \* "none" | "source" | "store": what escaped to the caller
    k,                      \* position in all_cik of the institution in progress
    n,                      \* len(...) evaluated by range() at main.py:59
    i,                      \* loop index over the filings of the institution
    consecutive_failures,
    filing_data,
    form_13f_filing,        \* the FilingSummary table, a sequence of rows
    attempted,              \* this run: cik -> number of filings attempted
    aborted,                \* this run: ciks whose filing loop hit the break
    stepped,                \* this run: ciks whose batch_upsert returned
    snapshot,               \* form_13f_filing when the previous run ended
    hpc,                    \* holdings loop body: "fetch" | "derive" | "upsert"
    filing,                 \* the selected filing in progress
    infotable,              \* its raw positions
    recs,                   \* the holdings records derived from it
    h,                      \* position in latest_filings_list of the filing in progress
    form_13f_holdings,      \* the HoldingsRecord table, a sequence of rows
    hraised,                \* "none" | "source" | "reformat" | "store": what escaped
    upserted,               \* positions whose holdings batch_upsert returned
    hrun,                   \* number of the current run of the holdings loop
    hsnapshot,              \* form_13f_holdings when the previous run ended
    hsource,                \* what the collaborators did with each selected filing
    calls,                  \* ranking query: number of calls made
    result,                 \* ranking query: the rows of the latest call
    previous,               \* ranking query: the rows of the call before it
    phase,                  \* "plain" | "reference" | "crashing" | "rerun"
    at_crash,               \* form_13f_filing when the process crashed
    ppc,                    \* institution_profile.py: "start" | "frame" | "records" | "done"
    profile_df,             \* its frame of (cik, company) rows
    profile_recs,           \* the records it builds
    institution_profile,    \* the InstitutionProfile table, a sequence of rows
    data,                   \* DataPager: self.data, a sequence of rows
    page_size,
    total_pages,
    current_page,
    returned,               \* what the last call of the pager returned
    last_call,              \* "none" | "next" | "previous"
    page_before,            \* current_page before the last call
    walk                    \* the pages seen from page 1 by next() calls alone

syncVars == <<source, run, pc, raised, k, n, i, consecutive_failures, filing_data,
              form_13f_filing, attempted, aborted, stepped, snapshot>>
loopVars == <<h, form_13f_holdings, hraised, upserted, hrun, hsnapshot, hsource>>
aggVars == <<hpc, filing, infotable, recs, loopVars>>
rankVars == <<calls, result, previous>>
crashVars == <<phase, at_crash>>
profileVars == <<ppc, profile_df, profile_recs, institution_profile>>
pagerVars == <<data, page_size, total_pages, current_page, returned, last_call,
               page_before, walk>>
vars == <<syncVars, aggVars, rankVars, crashVars, profileVars, pagerVars>>
outsideSync == <<aggVars, rankVars, crashVars, profileVars, pagerVars>>
outsideAgg == <<syncVars, rankVars, crashVars, profileVars, pagerVars>>

cik == all_cik[k]

(* -------------------------- the Data Store ----------------------------- *)
Matches(row, rec, conflict_columns) ==
    /\ conflict_columns \subseteq DOMAIN rec
    /\ \A c \in conflict_columns : row[c] = rec[c]

Overwrite(row, rec) ==
    [c \in DOMAIN row |-> IF c \in DOMAIN rec THEN rec[c] ELSE row[c]]

InsertRow(table, rec, id_column) ==
    Append(table, [c \in DOMAIN rec \cup {id_column} |->
                      IF c \in DOMAIN rec THEN rec[c] ELSE Len(table) + 1])

UpsertOne(table, rec, conflict_columns, id_column) ==
    IF \E r \in 1..Len(table) : Matches(table[r], rec, conflict_columns)
    THEN LET r == CHOOSE r \in 1..Len(table) :
                     /\ Matches(table[r], rec, conflict_columns)
                     /\ \A q \in 1..(r - 1) : ~Matches(table[q], rec, conflict_columns)
         IN  [table EXCEPT ![r] = Overwrite(table[r], rec)]
    ELSE InsertRow(table, rec, id_column)

RECURSIVE batch_upsert(_, _, _, _)
batch_upsert(table, records, conflict_columns, id_column) ==
    IF records = <<>> THEN table
    ELSE batch_upsert(UpsertOne(table, Head(records), conflict_columns, id_column),
                      Tail(records), conflict_columns, id_column)

\* An empty batch is a no-op; a batch with records is accepted or rejected as
\* a whole.
Rejects(records, verdict) == records # <<>> /\ verdict = "rejected"

(* ------------------- INSTITUTION FILING (main.py 52-79) ---------------- *)
\* main.py:78 conflict_columns (variant: keyed by the serial filing_id).
FilingConflictColumnsOnId == {"filing_id"}
FilingConflictColumns == {"accession_number"}

\* main.py:74 consecutive_failures > 2 (variant: one more failure tolerated).
FailureThresholdLoose == 2 + 1
FailureThreshold == 2

FilingRecord(c, j) ==
    [cik |-> c,
     accession_number |-> accession_no(c, j)]

\* The listing of the cik in progress, the outcome of its filing i + 1, and
\* what the Data Store makes of its batch.
ListingRead == IF source[cik].listing = "unseen" THEN Listings ELSE {source[cik]}
VerdictRead ==
    IF filing_data = <<>> THEN {source[cik].batch}
    ELSE IF source[cik].batch = "unseen" THEN Verdicts ELSE {source[cik].batch}
OutcomeRead ==
    IF source[cik].filings[i + 1] = "unseen" THEN Outcomes ELSE {source[cik].filings[i + 1]}
Reveal(outcome) == [source EXCEPT ![cik].filings[i + 1] = outcome]

SyncInit ==
    /\ source = [c \in 1..NumInst |-> [listing |-> "unseen", filings |-> <<>>, batch |-> "unseen"]]
    /\ run = 1
    /\ pc = "start"
    /\ raised = "none"
    /\ k = 1
    /\ n = 0
    /\ i = 0
    /\ consecutive_failures = 0
    /\ filing_data = <<>>
    /\ form_13f_filing = <<>>
    /\ attempted = [c \in 1..NumInst |-> 0]
    /\ aborted = {}
    /\ stepped = {}
    /\ snapshot = <<>>

\* main.py 52-57: read all_cik, set the counter once, enter the cik loop.
StartRun ==
    /\ pc = "start"
    /\ consecutive_failures' = 0
    /\ k' = 1
    /\ pc' = IF Len(all_cik) = 0 THEN "done" ELSE "list"
    /\ UNCHANGED <<source, run, raised, n, i, filing_data, form_13f_filing,
                   attempted, aborted, stepped, snapshot>>

\* main.py 58-59: filing_data = []; range(len(find(cik).get_filings(...))),
\* evaluated outside the try block.
ListFilings ==
    /\ pc = "list"
    /\ filing_data' = <<>>
    /\ \E l \in ListingRead :
          /\ source' = [source EXCEPT ![cik] = l]
          /\ IF l.listing = "raises"
             THEN /\ pc' = "raised"
                  /\ raised' = "source"
                  /\ UNCHANGED <<n, i>>
             ELSE /\ n' = Len(l.filings)
                  /\ i' = 0
                  /\ pc' = IF Len(l.filings) = 0 THEN "upsert" ELSE "fetch"
                  /\ UNCHANGED raised
    /\ UNCHANGED <<run, k, consecutive_failures, form_13f_filing,
                   attempted, aborted, stepped, snapshot>>

\* main.py 60-70: the try block ran to its end.
FetchSuccess ==
    /\ pc = "fetch"
    /\ "ok" \in OutcomeRead
    /\ source' = Reveal("ok")
    /\ filing_data' = Append(filing_data, FilingRecord(cik, i + 1))
    /\ consecutive_failures' = 0
    /\ attempted' = [attempted EXCEPT ![cik] = i + 1]
    /\ i' = i + 1
    /\ pc' = IF i + 1 < n THEN "fetch" ELSE "upsert"
    /\ UNCHANGED <<run, raised, k, n, form_13f_filing, aborted, stepped, snapshot>>

\* main.py 71-76: the except branch. Variants first: one that leaves for the
\* next cik on the break without the upsert, one that empties filing_data on
\* the break, one that appends a record for the failed filing, one that tries
\* the failed filing again.
FetchFailRetries ==
    /\ pc = "fetch"
    /\ "fail" \in OutcomeRead
    /\ source' = Reveal("fail")
    /\ consecutive_failures' = consecutive_failures + 1
    /\ attempted' = [attempted EXCEPT ![cik] = i + 1]
    /\ IF consecutive_failures + 1 > FailureThreshold
       THEN /\ pc' = "upsert"
            /\ aborted' = aborted \cup {cik}
       ELSE /\ pc' = "fetch"
            /\ UNCHANGED aborted
    /\ UNCHANGED <<run, raised, k, n, i, filing_data, form_13f_filing, stepped, snapshot>>

FetchFailSkipsUpsert ==
    /\ pc = "fetch"
    /\ "fail" \in OutcomeRead
    /\ source' = Reveal("fail")
    /\ consecutive_failures' = consecutive_failures + 1
    /\ attempted' = [attempted EXCEPT ![cik] = i + 1]
    /\ IF consecutive_failures + 1 > FailureThreshold
       THEN /\ aborted' = aborted \cup {cik}
            /\ UNCHANGED i
            /\ IF k < Len(all_cik)
               THEN /\ k' = k + 1
                    /\ pc' = "list"
               ELSE /\ pc' = "done"
                    /\ UNCHANGED k
       ELSE /\ i' = i + 1
            /\ pc' = IF i + 1 < n THEN "fetch" ELSE "upsert"
            /\ UNCHANGED <<aborted, k>>
    /\ UNCHANGED <<run, raised, n, filing_data, form_13f_filing, stepped, snapshot>>

FetchFailDropsBatch ==
    /\ pc = "fetch"
    /\ "fail" \in OutcomeRead
    /\ source' = Reveal("fail")
    /\ consecutive_failures' = consecutive_failures + 1
    /\ attempted' = [attempted EXCEPT ![cik] = i + 1]
    /\ IF consecutive_failures + 1 > FailureThreshold
       THEN /\ pc' = "upsert"
            /\ aborted' = aborted \cup {cik}
            /\ filing_data' = <<>>
            /\ UNCHANGED i
       ELSE /\ i' = i + 1
            /\ pc' = IF i + 1 < n THEN "fetch" ELSE "upsert"
            /\ UNCHANGED <<aborted, filing_data>>
    /\ UNCHANGED <<run, raised, k, n, form_13f_filing, stepped, snapshot>>

FetchFailAppends ==
    /\ pc = "fetch"
    /\ "fail" \in OutcomeRead
    /\ source' = Reveal("fail")
    /\ consecutive_failures' = consecutive_failures + 1
    /\ attempted' = [attempted EXCEPT ![cik] = i + 1]
    /\ filing_data' = Append(filing_data, FilingRecord(cik, i + 1))
    /\ IF consecutive_failures + 1 > FailureThreshold
       THEN /\ pc' = "upsert"
            /\ aborted' = aborted \cup {cik}
            /\ UNCHANGED i
       ELSE /\ i' = i + 1
            /\ pc' = IF i + 1 < n THEN "fetch" ELSE "upsert"
            /\ UNCHANGED aborted
    /\ UNCHANGED <<run, raised, k, n, form_13f_filing, stepped, snapshot>>

FetchFail ==
    /\ pc = "fetch"
    /\ "fail" \in OutcomeRead
    /\ source' = Reveal("fail")
    /\ consecutive_failures' = consecutive_failures + 1
    /\ attempted' = [attempted EXCEPT ![cik] = i + 1]
    /\ IF consecutive_failures + 1 > FailureThreshold
       THEN /\ pc' = "upsert"
            /\ aborted' = aborted \cup {cik}
            /\ UNCHANGED i
       ELSE /\ i' = i + 1
            /\ pc' = IF i + 1 < n THEN "fetch" ELSE "upsert"
            /\ UNCHANGED aborted
    /\ UNCHANGED <<run, raised, k, n, filing_data, form_13f_filing, stepped, snapshot>>

\* main.py 78-79: nc.batch_upsert(...) outside any try block, then the next cik.
UpsertFilings ==
    /\ pc = "upsert"
    /\ \E verdict \in VerdictRead :
          /\ source' = [source EXCEPT ![cik].batch = verdict]
          /\ IF Rejects(filing_data, verdict)
             THEN /\ pc' = "raised"
                  /\ raised' = "store"
                  /\ UNCHANGED <<form_13f_filing, stepped, k>>
             ELSE /\ form_13f_filing' = batch_upsert(form_13f_filing, filing_data,
                                                     FilingConflictColumns, "filing_id")
                  /\ stepped' = stepped \cup {cik}
                  /\ UNCHANGED raised
                  /\ IF k < Len(all_cik)
                     THEN /\ k' = k + 1
                          /\ pc' = "list"
                     ELSE /\ pc' = "done"
                          /\ UNCHANGED k
    /\ UNCHANGED <<run, n, i, consecutive_failures, filing_data, attempted,
                   aborted, snapshot>>

\* The external scheduler invokes the script again: a fresh process, the same
\* source and the persisted table.
Rerun ==
    /\ pc \in {"done", "raised"}
    /\ run < MaxRuns
    /\ run' = run + 1
    /\ snapshot' = form_13f_filing
    /\ pc' = "start"
    /\ raised' = "none"
    /\ k' = 1
    /\ n' = 0
    /\ i' = 0
    /\ consecutive_failures' = 0
    /\ filing_data' = <<>>
    /\ attempted' = [c \in 1..NumInst |-> 0]
    /\ aborted' = {}
    /\ stepped' = {}
    /\ UNCHANGED <<source, form_13f_filing>>

(* ------------------ INSTITUTION HOLDING (main.py 106-119) -------------- *)
\* The rows of the ranking query, as select_query returned them.
latest_filings_list ==
    [j \in 1..NumListed |->
        [filing_id |-> j, cik |-> 1 + (j % 2), filing_date |-> 20 + j,
         accession_number |-> accession_no(1 + (j % 2), j)]]

\* main.py:109 iterates over latest_filings_list[10:].
SliceStart == 10

\* A raw position has no ticker (NoTicker) or one of the tickers; its amounts
\* are fractional, counted in units of 1/Scale.
NoTicker == 0
Tickers == 1..NumTickers
RawValues == {-(Scale + 1), 0, Scale + 1, 2 * Scale}
RawShares == {Scale, 2 * Scale + 1}
Positions == [Ticker : Tickers \cup {NoTicker}, Value : RawValues, SharesPrnAmount : RawShares]

\* main.py:110 sort_values('Value', ascending=False): the tables that can come
\* out of it are the ones in descending order of Value.
SortedTables(m) ==
    UNION {{t \in [1..len -> Positions] :
               \A r \in 1..(len - 1) : t[r].Value >= t[r + 1].Value} : len \in 0..m}

\* astype(int) on a fractional amount: truncation toward zero (variant:
\* rounding to the nearest integer, halves away from zero).
ToIntRounds(x) ==
    IF x >= 0 THEN (2 * x + Scale) \div (2 * Scale)
    ELSE -((2 * (-x) + Scale) \div (2 * Scale))
ToInt(x) == IF x >= 0 THEN x \div Scale ELSE -((-x) \div Scale)

\* main.py:112
Coerce(table) ==
    [r \in 1..Len(table) |->
        [table[r] EXCEPT !.Value = ToInt(@), !.SharesPrnAmount = ToInt(@)]]

RECURSIVE ColumnSum(_, _)
ColumnSum(rows, col) ==
    IF rows = <<>> THEN 0 ELSE Head(rows)[col] + ColumnSum(Tail(rows), col)

\* The aggregate of one column within a group (variant: first() for sum()).
ColumnFirst(rows, col) == Head(rows)[col]
GroupSum(rows, col) == ColumnSum(rows, col)

GroupRows(table, t) == SelectSeq(table, LAMBDA p : p.Ticker = t)

\* groupby drops the rows whose key is missing (variant: the missing key is
\* kept as a group of its own).
GroupKeysWithMissing(table) == {table[r].Ticker : r \in 1..Len(table)} \cup {NoTicker}
GroupKeys(table) == {table[r].Ticker : r \in 1..Len(table)} \ {NoTicker}

\* main.py:113 groupby(['Ticker']).sum(): every other column of the frame is
\* summed within the group, the filing_id column that line 111 added included.
GroupBySum(table) ==
    [t \in GroupKeys(table) |->
        [Ticker |-> t,
         Value |-> GroupSum(GroupRows(table, t), "Value"),
         SharesPrnAmount |-> GroupSum(GroupRows(table, t), "SharesPrnAmount"),
         filing_id |-> GroupSum(GroupRows(table, t), "filing_id")]]

\* main.py:113 reset_index().sort_values('Value', ascending=False): the orders
\* of the groups that are descending in Value; the default sort is not stable,
\* so groups of equal Value come in any order.
SortOrders(groups) ==
    {o \in [1..Cardinality(DOMAIN groups) -> DOMAIN groups] :
        /\ \A a, b \in DOMAIN o : o[a] = o[b] => a = b
        /\ \A a, b \in DOMAIN o : a < b => groups[o[a]].Value >= groups[o[b]].Value}

\* main.py:114, the total taken from the grouped frame (variant: from the
\* frame before the grouping).
total_sharesBeforeGrouping(df, ungrouped) == ColumnSum(ungrouped, "Value")
total_shares(df, ungrouped) == ColumnSum(df, "Value")

\* main.py:115, then to_json at 118: value / total * 100 as the exact fraction
\* num / den; a division by zero gives NaN or infinity, which to_json writes
\* as null (defined = FALSE).
Percentage(value, total) ==
    IF total = 0
    THEN [defined |-> FALSE, num |-> 0, den |-> 1]
    ELSE [defined |-> TRUE, num |-> value * 100, den |-> total]

\* main.py:115-119 for one row of the grouped frame.
HoldingsRecord(row, total, f) ==
    [symbol |-> row.Ticker,
     value |-> row.Value,
     share |-> row.SharesPrnAmount,
     filing_id |-> row.filing_id,
     percentage |-> Percentage(row.Value, total),
     filing_date |-> f.filing_date]

\* main.py:110-111: fetch and parse the infotable of a selected filing, sort
\* it by Value and add the filing_id column.
FetchInfotable ==
    /\ hpc = "fetch"
    /\ \E j \in (SliceStart + 1)..Len(latest_filings_list) :
       \E t \in SortedTables(MaxPositions) :
          /\ filing' = latest_filings_list[j]
          /\ infotable' =
                [r \in 1..Len(t) |->
                    [Ticker |-> t[r].Ticker, Value |-> t[r].Value,
                     SharesPrnAmount |-> t[r].SharesPrnAmount,
                     filing_id |-> latest_filings_list[j].filing_id]]
    /\ hpc' = "derive"
    /\ UNCHANGED <<recs, loopVars>>

\* main.py:112-119
DeriveHoldings ==
    /\ hpc = "derive"
    /\ \E coerced \in {Coerce(infotable)} :
       \E groups \in {GroupBySum(coerced)} :
       \E o \in SortOrders(groups) :
       \E df \in {[r \in DOMAIN o |-> groups[o[r]]]} :
       \E total \in {total_shares(df, coerced)} :
          recs' = [r \in DOMAIN df |-> HoldingsRecord(df[r], total, filing)]
    /\ hpc' = "upsert"
    /\ UNCHANGED <<filing, infotable, loopVars>>

\* A few infotables of the source, as line 110 sorts them: none, one position,
\* two positions of one ticker, two tickers of equal coerced value.
Pos(t, v, s) == [Ticker |-> t, Value |-> v, SharesPrnAmount |-> s]
SampleTables ==
    {<<>>,
     <<Pos(1, 2 * Scale, Scale)>>,
     <<Pos(1, 2 * Scale, Scale), Pos(1, Scale + 1, Scale)>>,
     <<Pos(2, Scale + 1, Scale), Pos(1, Scale + 1, 2 * Scale + 1)>>}

\* The source and the store are unchanged over the runs of the loop: what a
\* filing did when it was first read ("unseen" before that) it does again.
Unseen ==
    [outcome |-> "unseen", table |-> <<>>, verdict |-> "unseen",
     reformat |-> "unseen", second |-> "unseen"]
Recall(seen, all) == IF seen = "unseen" THEN all ELSE {seen}
TableRead == IF hsource[h].outcome = "unseen" THEN SampleTables ELSE {hsource[h].table}

\* main.py:109-111 in the loop: the filing at position h is fetched and parsed
\* outside any try block, so a failure of the source escapes.
FetchSelected ==
    /\ hpc = "fetch"
    /\ h <= Len(latest_filings_list)
    /\ \E outcome \in Recall(hsource[h].outcome, Outcomes) :
          IF outcome = "fail"
          THEN /\ hpc' = "raised"
               /\ hraised' = "source"
               /\ hsource' = [hsource EXCEPT ![h].outcome = outcome]
               /\ UNCHANGED <<filing, infotable>>
          ELSE /\ \E t \in TableRead :
                     /\ hsource' = [hsource EXCEPT ![h].outcome = outcome, ![h].table = t]
                     /\ filing' = latest_filings_list[h]
                     /\ infotable' =
                           [r \in 1..Len(t) |->
                               [Ticker |-> t[r].Ticker, Value |-> t[r].Value,
                                SharesPrnAmount |-> t[r].SharesPrnAmount,
                                filing_id |-> latest_filings_list[h].filing_id]]
               /\ hpc' = "derive"
               /\ UNCHANGED hraised
    /\ UNCHANGED <<recs, h, form_13f_holdings, upserted, hrun, hsnapshot>>

\* main.py:120 and 126 conflict_columns; the table has no serial column, its
\* key columns come with the records (variant: keyed by a serial id that the
\* records do not carry).
HoldingsConflictColumnsOnId == {"holding_id"}
HoldingsConflictColumns == {"filing_id", "symbol"}
HoldingsIdColumn == "filing_id"

\* main.py:123 x.strftime('%Y-%m-%d %H:%M:%S'): the date as a text of that shape.
strftime(d) == <<"%Y-%m-%d %H:%M:%S", d>>
Reformatted(records) ==
    [r \in 1..Len(records) |-> [records[r] EXCEPT !.filing_date = strftime(@)]]

\* What strftime does on the filing_date column: it raises when the column
\* holds something that is not a date object; an empty column is never touched.
ReformatOutcomes(records) == IF records = <<>> THEN {"ok"} ELSE {"ok", "raises"}

\* main.py:127 and the loop header: the next filing of the slice.
NextFiling ==
    /\ upserted' = upserted \cup {h}
    /\ IF h < Len(latest_filings_list)
       THEN /\ h' = h + 1
            /\ hpc' = "fetch"
       ELSE /\ hpc' = "done"
            /\ UNCHANGED h

\* main.py:120-127: the upsert inside try, the bare except with the
\* reformatting and the second upsert, neither of them inside a try block.
UpsertHoldings ==
    /\ hpc = "upsert"
    /\ \E verdict \in Recall(hsource[h].verdict, Verdicts) :
          IF ~Rejects(recs, verdict)
          THEN /\ form_13f_holdings' = batch_upsert(form_13f_holdings, recs,
                                                    HoldingsConflictColumns, HoldingsIdColumn)
               /\ hsource' = [hsource EXCEPT ![h].verdict = verdict]
               /\ NextFiling
               /\ UNCHANGED <<recs, hraised>>
          ELSE \E reformat \in Recall(hsource[h].reformat, ReformatOutcomes(recs)) :
                  IF reformat = "raises"
                  THEN /\ hsource' = [hsource EXCEPT ![h].verdict = verdict,
                                                     ![h].reformat = reformat]
                       /\ hpc' = "raised"
                       /\ hraised' = "reformat"
                       /\ UNCHANGED <<recs, h, form_13f_holdings, upserted>>
                  ELSE \E second \in Recall(hsource[h].second, Verdicts) :
                       /\ hsource' = [hsource EXCEPT ![h].verdict = verdict,
                                                     ![h].reformat = reformat,
                                                     ![h].second = second]
                       /\ recs' = Reformatted(recs)
                       /\ IF Rejects(Reformatted(recs), second)
                          THEN /\ hpc' = "raised"
                               /\ hraised' = "store"
                               /\ UNCHANGED <<h, form_13f_holdings, upserted>>
                          ELSE /\ form_13f_holdings' =
                                     batch_upsert(form_13f_holdings, Reformatted(recs),
                                                  HoldingsConflictColumns, HoldingsIdColumn)
                               /\ NextFiling
                               /\ UNCHANGED hraised
    /\ UNCHANGED <<filing, infotable, hrun, hsnapshot>>

\* The script is run again: a fresh process, the same selected filings, the
\* same source and the persisted table.
BackfillRerun ==
    /\ hpc \in {"done", "raised"}
    /\ hrun < MaxRuns
    /\ hrun' = hrun + 1
    /\ hsnapshot' = form_13f_holdings
    /\ hpc' = "fetch"
    /\ h' = SliceStart + 1
    /\ hraised' = "none"
    /\ upserted' = {}
    /\ filing' = [filing_id |-> 0, cik |-> 0, filing_date |-> 0, accession_number |-> 0]
    /\ infotable' = <<>>
    /\ recs' = <<>>
    /\ UNCHANGED <<form_13f_holdings, hsource>>

NoCrash ==
    /\ phase = "plain"
    /\ at_crash = <<>>

\* No pager has been made.
NoPage == [none |-> TRUE, rows |-> <<>>]
PagerIdle ==
    /\ data = <<>>
    /\ page_size = 1
    /\ total_pages = 1
    /\ current_page = 1
    /\ returned = NoPage
    /\ last_call = "none"
    /\ page_before = 1
    /\ walk = <<>>

ProfileIdle ==
    /\ ppc = "idle"
    /\ profile_df = <<>>
    /\ profile_recs = <<>>
    /\ institution_profile = <<>>

RankIdle ==
    /\ calls = 0
    /\ result = <<>>
    /\ previous = <<>>

AggIdle ==
    /\ filing = [filing_id |-> 0, cik |-> 0, filing_date |-> 0, accession_number |-> 0]
    /\ infotable = <<>>
    /\ recs = <<>>
    /\ h = SliceStart + 1
    /\ form_13f_holdings = <<>>
    /\ hraised = "none"
    /\ upserted = {}
    /\ hrun = 1
    /\ hsnapshot = <<>>
    /\ hsource = [j \in (SliceStart + 1)..Len(latest_filings_list) |-> Unseen]

Init == SyncInit /\ hpc = "idle" /\ AggIdle /\ RankIdle /\ NoCrash /\ ProfileIdle /\ PagerIdle

Next ==
    \/ StartRun /\ UNCHANGED outsideSync
    \/ ListFilings /\ UNCHANGED outsideSync
    \/ FetchSuccess /\ UNCHANGED outsideSync
    \/ FetchFail /\ UNCHANGED outsideSync
    \/ UpsertFilings /\ UNCHANGED outsideSync

Spec == Init /\ [][Next]_vars

\* The script run again and again: the listing of every cik is fixed from the
\* start, with at most MaxFilingsRerun filings.
InitTwice ==
    /\ source \in [1..NumInst -> {l \in Listings : Len(l.filings) <= MaxFilingsRerun}]
    /\ run = 1
    /\ pc = "start"
    /\ raised = "none"
    /\ k = 1
    /\ n = 0
    /\ i = 0
    /\ consecutive_failures = 0
    /\ filing_data = <<>>
    /\ form_13f_filing = <<>>
    /\ attempted = [c \in 1..NumInst |-> 0]
    /\ aborted = {}
    /\ stepped = {}
    /\ snapshot = <<>>
    /\ hpc = "idle"
    /\ AggIdle
    /\ RankIdle
    /\ NoCrash
    /\ ProfileIdle
    /\ PagerIdle

NextTwice ==
    \/ StartRun /\ UNCHANGED outsideSync
    \/ ListFilings /\ UNCHANGED outsideSync
    \/ FetchSuccess /\ UNCHANGED outsideSync
    \/ FetchFail /\ UNCHANGED outsideSync
    \/ UpsertFilings /\ UNCHANGED outsideSync
    \/ Rerun /\ UNCHANGED outsideSync

SpecTwice == InitTwice /\ [][NextTwice]_vars

\* The script is one thread that runs on until it ends or raises: a step that
\* can be taken is taken.
\* The listing of every cik is fixed from the start, with at most
\* MaxFilingsLive filings.
InitLive ==
    /\ source \in [1..NumInst -> {l \in Listings : Len(l.filings) <= MaxFilingsLive}]
    /\ run = 1
    /\ pc = "start"
    /\ raised = "none"
    /\ k = 1
    /\ n = 0
    /\ i = 0
    /\ consecutive_failures = 0
    /\ filing_data = <<>>
    /\ form_13f_filing = <<>>
    /\ attempted = [c \in 1..NumInst |-> 0]
    /\ aborted = {}
    /\ stepped = {}
    /\ snapshot = <<>>
    /\ hpc = "idle"
    /\ AggIdle
    /\ RankIdle
    /\ NoCrash
    /\ ProfileIdle
    /\ PagerIdle

SpecLive == InitLive /\ [][Next]_vars /\ WF_vars(Next)

\* A process that starts the script: nothing of an earlier process is in memory.
FreshProcess ==
    /\ pc' = "start"
    /\ raised' = "none"
    /\ k' = 1
    /\ n' = 0
    /\ i' = 0
    /\ consecutive_failures' = 0
    /\ filing_data' = <<>>
    /\ attempted' = [c \in 1..NumInst |-> 0]
    /\ aborted' = {}
    /\ stepped' = {}

\* Two histories over the same source, played one after the other. The first
\* is a single uninterrupted run on the empty table; when it has ended its
\* table is kept in snapshot, and the second history starts on the empty table.
EndReference ==
    /\ phase = "reference"
    /\ pc \in {"done", "raised"}
    /\ snapshot' = form_13f_filing
    /\ form_13f_filing' = <<>>
    /\ phase' = "crashing"
    /\ FreshProcess
    /\ UNCHANGED <<source, run, at_crash>>

\* In the second history the process dies between two steps of the script and
\* the script is started again: the source and the persisted table are what
\* they were, the memory of the dead process is gone.
Crash ==
    /\ phase = "crashing"
    /\ pc \in {"start", "list", "fetch", "upsert"}
    /\ at_crash' = form_13f_filing
    /\ phase' = "rerun"
    /\ FreshProcess
    /\ UNCHANGED <<source, run, form_13f_filing, snapshot>>

InitCrash ==
    /\ source \in [1..NumInst -> {l \in Listings : Len(l.filings) <= MaxFilingsRerun}]
    /\ run = 1
    /\ pc = "start"
    /\ raised = "none"
    /\ k = 1
    /\ n = 0
    /\ i = 0
    /\ consecutive_failures = 0
    /\ filing_data = <<>>
    /\ form_13f_filing = <<>>
    /\ attempted = [c \in 1..NumInst |-> 0]
    /\ aborted = {}
    /\ stepped = {}
    /\ snapshot = <<>>
    /\ hpc = "idle"
    /\ AggIdle
    /\ RankIdle
    /\ phase = "reference"
    /\ at_crash = <<>>
    /\ ProfileIdle
    /\ PagerIdle

NextCrash ==
    \/ StartRun /\ UNCHANGED outsideSync
    \/ ListFilings /\ UNCHANGED outsideSync
    \/ FetchSuccess /\ UNCHANGED outsideSync
    \/ FetchFail /\ UNCHANGED outsideSync
    \/ UpsertFilings /\ UNCHANGED outsideSync
    \/ EndReference /\ UNCHANGED <<aggVars, rankVars, profileVars, pagerVars>>
    \/ Crash /\ UNCHANGED <<aggVars, rankVars, profileVars, pagerVars>>

SpecCrash == InitCrash /\ [][NextCrash]_vars

InitAgg == SyncInit /\ hpc = "fetch" /\ AggIdle /\ RankIdle /\ NoCrash /\ ProfileIdle /\ PagerIdle

NextAgg ==
    \/ FetchInfotable /\ UNCHANGED outsideAgg
    \/ DeriveHoldings /\ UNCHANGED outsideAgg

SpecAgg == InitAgg /\ [][NextAgg]_vars

\* The whole INSTITUTION HOLDING loop over latest_filings_list[10:].
InitBackfill == InitAgg

NextBackfill ==
    \/ FetchSelected /\ UNCHANGED outsideAgg
    \/ DeriveHoldings /\ UNCHANGED outsideAgg
    \/ UpsertHoldings /\ UNCHANGED outsideAgg

SpecBackfill == InitBackfill /\ [][NextBackfill]_vars

\* The INSTITUTION HOLDING loop run MaxRuns times over the same selected
\* filings, the unchanged source and the persisted table.
NextBackfillTwice ==
    \/ FetchSelected /\ UNCHANGED outsideAgg
    \/ DeriveHoldings /\ UNCHANGED outsideAgg
    \/ UpsertHoldings /\ UNCHANGED outsideAgg
    \/ BackfillRerun /\ UNCHANGED outsideAgg

SpecBackfillTwice == InitBackfill /\ [][NextBackfillTwice]_vars

(* ------------------- the ranking query (main.py 84-106) ---------------- *)
\* The contents of form_13f_filing the query is run against: up to
\* MaxRankRows rows, each of some cik with some filing_date, its filing_id the
\* serial number of the row and its accession_number its own.
FilingDates == 1..MaxDate
RankedColumns == [cik : 1..NumInst, filing_date : FilingDates]
FilingTables ==
    UNION {{[r \in 1..len |->
                [filing_id |-> r, cik |-> t[r].cik, filing_date |-> t[r].filing_date,
                 accession_number |-> accession_no(t[r].cik, r)]] :
            t \in [1..len -> RankedColumns]} : len \in 0..MaxRankRows}

\* main.py:91 ORDER BY filing_date DESC (variant: ascending).
OrderByFilingDateAsc(a, b) == a.filing_date <= b.filing_date
OrderByFilingDateDesc(a, b) == a.filing_date >= b.filing_date

\* main.py:91 the window sort: the rows partition by partition (in the order
\* of the partition key) and by filing_date within a partition; the ORDER BY
\* names no second key, so rows of one cik with the same filing_date come in
\* any order.
WindowOrders(table) ==
    {o \in [1..Len(table) -> 1..Len(table)] :
        /\ \A a, b \in DOMAIN o : o[a] = o[b] => a = b
        /\ \A a, b \in DOMAIN o :
              a < b => \/ table[o[a]].cik < table[o[b]].cik
                       \/ /\ table[o[a]].cik = table[o[b]].cik
                          /\ OrderByFilingDateDesc(table[o[a]], table[o[b]])}

\* main.py:91 ROW_NUMBER() within the partition of the row at place p.
rank_num(table, o, p) ==
    Cardinality({q \in 1..p : table[o[q]].cik = table[o[p]].cik})

\* main.py:103 WHERE rank_num <= 2
RankLimit == 2

\* main.py:84-104 the rows the query returns for one outcome of the sort.
ranked_filings(table, o) ==
    LET kept == SelectSeq([p \in 1..Len(table) |-> p],
                          LAMBDA p : rank_num(table, o, p) <= RankLimit)
    IN  [p \in 1..Len(kept) |-> table[o[kept[p]]]]

\* main.py:106 latest_filings_list = nc.select_query(sql_query)
SelectLatest ==
    /\ calls < MaxCalls
    /\ \E o \in WindowOrders(form_13f_filing) :
          result' = ranked_filings(form_13f_filing, o)
    /\ previous' = result
    /\ calls' = calls + 1

InitRank ==
    /\ form_13f_filing \in FilingTables
    /\ source = [c \in 1..NumInst |-> [listing |-> "unseen", filings |-> <<>>, batch |-> "unseen"]]
    /\ run = 1
    /\ pc = "done"
    /\ raised = "none"
    /\ k = 1
    /\ n = 0
    /\ i = 0
    /\ consecutive_failures = 0
    /\ filing_data = <<>>
    /\ attempted = [c \in 1..NumInst |-> 0]
    /\ aborted = {}
    /\ stepped = {}
    /\ snapshot = <<>>
    /\ hpc = "idle"
    /\ AggIdle
    /\ RankIdle
    /\ NoCrash
    /\ ProfileIdle
    /\ PagerIdle

NextRank == SelectLatest /\ UNCHANGED <<syncVars, aggVars, crashVars, profileVars, pagerVars>>

SpecRank == InitRank /\ [][NextRank]_vars

(* ------------- institution discovery (institution_profile.py) ---------- *)
\* institution_profile.py:16-17 the index of the 13F-HR filings of the year,
\* cut down to the columns cik and company: one row per filing, so a cik comes
\* as often as it filed and under every company name it filed with.
Companies == 1..NumCompanies
IndexRows == [cik : 1..NumInst, company : Companies]
FilingIndexes == UNION {[1..len -> IndexRows] : len \in 0..MaxIndexRows}

\* institution_profile.py:18 drop_duplicates(): of the rows that are equal in
\* every column, the first is kept.
drop_duplicates(frame) ==
    LET kept == SelectSeq([p \in 1..Len(frame) |-> p],
                          LAMBDA p : \A q \in 1..(p - 1) : frame[q] # frame[p])
    IN  [p \in 1..Len(kept) |-> frame[kept[p]]]

\* institution_profile.py:19-23 rename company to institution, add updated_on.
ProfileRecord(row) ==
    [cik |-> row.cik, institution |-> row.company, updated_on |-> "now"]

\* institution_profile.py:25 conflict_columns; the key comes with the records.
ProfileConflictColumns == {"cik"}
ProfileIdColumn == "cik"

\* institution_profile.py:16-17
GetFilings ==
    /\ ppc = "start"
    /\ profile_df' \in FilingIndexes
    /\ ppc' = "frame"
    /\ UNCHANGED <<profile_recs, institution_profile>>

\* institution_profile.py:18-24
BuildRecords ==
    /\ ppc = "frame"
    /\ profile_df' = drop_duplicates(profile_df)
    /\ profile_recs' = 
          [p \in 1..Len(drop_duplicates(profile_df)) |->
              ProfileRecord(drop_duplicates(profile_df)[p])]
    /\ ppc' = "records"
    /\ UNCHANGED institution_profile

\* institution_profile.py:25 the upsert of the batch keyed by cik.
UpsertProfiles ==
    /\ ppc = "records"
    /\ institution_profile' = batch_upsert(institution_profile, profile_recs,
                                           ProfileConflictColumns, ProfileIdColumn)
    /\ ppc' = "done"
    /\ UNCHANGED <<profile_df, profile_recs>>

InitProfile ==
    /\ SyncInit
    /\ hpc = "idle"
    /\ AggIdle
    /\ RankIdle
    /\ NoCrash
    /\ ppc = "start"
    /\ profile_df = <<>>
    /\ profile_recs = <<>>
    /\ institution_profile = <<>>
    /\ PagerIdle

NextProfile ==
    \/ GetFilings /\ UNCHANGED <<syncVars, aggVars, rankVars, crashVars, pagerVars>>
    \/ BuildRecords /\ UNCHANGED <<syncVars, aggVars, rankVars, crashVars, pagerVars>>
    \/ UpsertProfiles /\ UNCHANGED <<syncVars, aggVars, rankVars, crashVars, pagerVars>>

SpecProfile == InitProfile /\ [][NextProfile]_vars

(* ------------------ DataPager (edgar/core.py 484-526) ------------------ *)
\* frame.iloc[start:end] / table.slice(offset, length): the rows after the
\* first start ones, up to row end or to the last row.
iloc(frame, start, end) ==
    SubSeq(frame, start + 1, IF end <= Len(frame) THEN end ELSE Len(frame))

\* core.py:516-526 current() on page p.
current(p) ==
    LET start_index == (p - 1) * page_size
        end_index == start_index + page_size
    IN  [none |-> FALSE, rows |-> iloc(data, start_index, end_index)]

\* core.py:495 the guard of next() (variant: <= for <).
HasNextInclusive == current_page <= total_pages
HasNext == current_page < total_pages

\* core.py:493-499
DataPager_next ==
    /\ last_call' = "next"
    /\ page_before' = current_page
    /\ IF HasNext
       THEN /\ current_page' = current_page + 1
            /\ returned' = current(current_page + 1)
            /\ walk' = IF walk = <<>> THEN <<>>
                       ELSE Append(walk, current(current_page + 1).rows)
       ELSE /\ returned' = [none |-> TRUE, rows |-> <<>>]
            /\ UNCHANGED <<current_page, walk>>
    /\ UNCHANGED <<data, page_size, total_pages>>

\* core.py:501-507
DataPager_previous ==
    /\ last_call' = "previous"
    /\ page_before' = current_page
    /\ IF current_page > 1
       THEN /\ current_page' = current_page - 1
            /\ returned' = current(current_page - 1)
       ELSE /\ returned' = [none |-> TRUE, rows |-> <<>>]
            /\ UNCHANGED current_page
    /\ walk' = <<>>
    /\ UNCHANGED <<data, page_size, total_pages>>

\* core.py:485-491 __init__ over data of up to MaxPagerRows rows, row r being
\* the number r; the walk starts with the first page.
InitPager ==
    /\ SyncInit
    /\ hpc = "idle"
    /\ AggIdle
    /\ RankIdle
    /\ NoCrash
    /\ ProfileIdle
    /\ \E len \in 0..MaxPagerRows : data = [r \in 1..len |-> r]
    /\ page_size \in 1..MaxPageSize
    /\ total_pages = (Len(data) \div page_size) + 1
    /\ current_page = 1
    /\ returned = NoPage
    /\ last_call = "none"
    /\ page_before = 1
    /\ walk = <<iloc(data, 0, page_size)>>

NextPager ==
    \/ DataPager_next /\ UNCHANGED <<syncVars, aggVars, rankVars, crashVars, profileVars>>
    \/ DataPager_previous /\ UNCHANGED <<syncVars, aggVars, rankVars, crashVars, profileVars>>

SpecPager == InitPager /\ [][NextPager]_vars

(* ===================== properties of the filing sync ==================== *)
Failed(c, j) == source[c].filings[j] = "fail"

\* Filings j-2, j-1 and j of institution c were attempted in this run and all failed.
ThreeFailuresEndAt(c, j) ==
    /\ j >= 3
    /\ j <= attempted[c]
    /\ \A d \in 0..2 : Failed(c, j - d)

AllAttemptsFailed(c) == \A j \in 1..attempted[c] : Failed(c, j)

RunEnded == pc \in {"done", "raised"}

AccessionsOf(c) ==
    {form_13f_filing[r].accession_number :
        r \in {q \in 1..Len(form_13f_filing) : form_13f_filing[q].cik = c}}

\* C1: the failure counter is per institution: it is 0 whenever the filing loop
\* of an institution starts, and a filing loop is aborted only after three
\* consecutive failed attempts of that same institution.
C1_CounterIsPerInstitution ==
    /\ (pc = "fetch" /\ i = 0) => consecutive_failures = 0
    /\ \A c \in aborted : ThreeFailuresEndAt(c, attempted[c])

\* C2: once three consecutive attempts of one institution have failed, no
\* further filing of that institution is attempted; the step that trips the
\* threshold raises nothing and hands over to the batch upsert, after which the
\* next institution is taken.
C2_NoAttemptAfterThirdFailure ==
    \A c \in 1..NumInst : \A j \in 1..attempted[c] :
        ThreeFailuresEndAt(c, j) =>
            /\ attempted[c] = j
            /\ c \in aborted
            /\ (k = c => pc # "fetch")
            /\ (k = c => raised # "source")

C2_ProceedsAfterCutoff ==
    /\ (pc = "fetch" /\ i + 1 >= 3 /\ \A d \in 0..2 : source'[cik].filings[i + 1 - d] = "fail")
          => (pc' = "upsert" /\ raised' = "none" /\ i' = i /\ attempted'[cik] = i + 1)
    /\ (pc = "upsert" /\ cik \in aborted /\ raised' # "store")
          => /\ raised' = "none"
             /\ attempted' = attempted
             /\ IF k < Len(all_cik) THEN k' = k + 1 /\ pc' = "list" ELSE pc' = "done"

C2_FailureThresholdCutoff ==
    [](C2_NoAttemptAfterThirdFailure) /\ [][C2_ProceedsAfterCutoff]_vars

C2_Witness ==
    \E c \in aborted \cap stepped :
        /\ ThreeFailuresEndAt(c, attempted[c])
        /\ attempted[c] < Len(source[c].filings)
        /\ k > c
        /\ pc = "fetch"

\* C3: failures separated by a success never accumulate: an institution whose
\* filings never fail three times in a row is not aborted and has every one of
\* its filings attempted; after a successful attempt the counter is 0.
C3_SuccessResetsCounter ==
    /\ (pc \in {"fetch", "upsert"} /\ attempted[cik] >= 1 /\ ~Failed(cik, attempted[cik]))
          => consecutive_failures = 0
    /\ (pc = "upsert" /\ ~\E j \in 1..attempted[cik] : ThreeFailuresEndAt(cik, j))
          => (cik \notin aborted /\ attempted[cik] = n)

\* C4: no failure of the Filing Source escapes to the caller, and the run
\* reaches every institution of the input.
C4_SourceFailureNeverEscapes ==
    /\ raised # "source"
    /\ (RunEnded /\ raised # "store") => k = Len(all_cik)

\* C5: the batch upsert of an institution whose every attempt failed (or that
\* has no filings) leaves form_13f_filing unchanged and raises nothing.
C5_EmptyBatchIsNoOp ==
    [][(pc = "upsert" /\ AllAttemptsFailed(cik))
          => (form_13f_filing' = form_13f_filing /\ raised' = "none" /\ pc' # "raised")]_vars

C5_Witness ==
    \E c \in stepped :
        /\ attempted[c] >= 1
        /\ AllAttemptsFailed(c)
        /\ Len(form_13f_filing) >= 1

\* C6: no two rows of form_13f_filing share an accession_number, and a second
\* run over the unchanged source ends with the table the first run left.
C6_SyncIsIdempotent ==
    /\ \A r, q \in 1..Len(form_13f_filing) :
          form_13f_filing[r].accession_number = form_13f_filing[q].accession_number => r = q
    /\ (RunEnded /\ run >= 2) => form_13f_filing = snapshot

C6_Witness ==
    /\ run = 2
    /\ pc = "done"
    /\ Len(form_13f_filing) >= 2
    /\ stepped = 1..NumInst

\* C7: once the step of an institution has finished, the table holds a row for
\* exactly the filings of that institution that were fetched and parsed
\* successfully, those parsed before an abort included.
C7_BatchHoldsExactlyTheParsedFilings ==
    \A c \in stepped :
        AccessionsOf(c) = {accession_no(c, j) : j \in {a \in 1..attempted[c] : ~Failed(c, a)}}

C7_Witness ==
    \E c \in stepped \cap aborted :
        /\ AccessionsOf(c) # {}
        /\ \E j \in 1..attempted[c] : Failed(c, j)

\* C21: the institutions are taken in input order and one at a time: a filing
\* of an institution is attempted only when the batch upsert of every earlier
\* institution has returned and no later institution has been touched; the
\* filings of an institution are attempted in the order of the listing, one per
\* step, and the loop moves to the next institution only from the upsert.
C21_EarlierInstitutionsAreUpserted ==
    \A c \in 1..NumInst :
        /\ attempted[c] >= 1 => (c <= k /\ \A b \in 1..(c - 1) : b \in stepped)
        /\ c > k => (attempted[c] = 0 /\ c \notin stepped)

C21_OneStepAtATime ==
    /\ attempted' # attempted
          => /\ pc = "fetch"
             /\ k' = k
             /\ attempted' = [attempted EXCEPT ![cik] = attempted[cik] + 1]
             /\ attempted'[cik] = i + 1
    /\ k' # k => (pc = "upsert" /\ k' = k + 1 /\ cik \in stepped' /\ attempted' = attempted)

C21_StrictlySequential ==
    [](C21_EarlierInstitutionsAreUpserted) /\ [][C21_OneStepAtATime]_vars

C21_Witness ==
    /\ pc = "fetch"
    /\ k = 2
    /\ attempted[1] >= 2
    /\ attempted[2] >= 1
    /\ 1 \in stepped

\* C22: every run reaches its end; every step of the filing loop attempts the
\* next filing of the listing and then moves past it or leaves the loop, so no
\* listed filing is attempted twice and none beyond the listing is attempted.
C22_OneAttemptPerFiling ==
    /\ pc = "fetch"
          => /\ i < n
             /\ attempted'[cik] = i + 1
             /\ \/ (i' = i + 1 /\ pc' \in {"fetch", "upsert"})
                \/ (i' = i /\ pc' = "upsert")
    /\ \A c \in 1..NumInst : attempted'[c] <= Len(source'[c].filings)
    /\ pc \in {"done", "raised"} => UNCHANGED vars

C22_SyncTerminates ==
    <>(RunEnded) /\ [][C22_OneAttemptPerFiling]_vars

C22_Witness ==
    /\ pc = "done"
    /\ aborted # {}
    /\ \A c \in 1..NumInst : attempted[c] >= 1 /\ AllAttemptsFailed(c)

\* C23: no rejection of a batch by the Data Store escapes to the caller, and a
\* run in which the source raised nothing ends with the batch of every
\* institution upserted.
C23_StoreRejectionDoesNotStopTheRun ==
    /\ raised # "store"
    /\ (RunEnded /\ raised # "source") => stepped = 1..NumInst

\* C18: a run that crashed at any point and was started again ends with the
\* form_13f_filing that a single uninterrupted run over the same source ends
\* with.
C18_CrashedRunIsResumable ==
    (phase = "rerun" /\ RunEnded) => form_13f_filing = snapshot

C18_Witness ==
    /\ phase = "rerun"
    /\ pc = "done"
    /\ at_crash # <<>>
    /\ Len(at_crash) < Len(form_13f_filing)
    /\ \E c \in 1..NumInst : \E j \in 1..attempted[c] : Failed(c, j)

(* ================= properties of the holdings aggregation =============== *)
RECURSIVE SeqSum(_)
SeqSum(seq) == IF seq = <<>> THEN 0 ELSE Head(seq) + SeqSum(Tail(seq))

\* The sum of the integer-coerced amounts in column col of the raw positions
\* whose ticker is t.
CoercedAmount(t, col) ==
    SeqSum([r \in 1..Len(infotable) |->
               IF infotable[r].Ticker = t THEN ToInt(infotable[r][col]) ELSE 0])

PositionsOf(t) == {r \in 1..Len(infotable) : infotable[r].Ticker = t}

RecordsOf(t) == {r \in 1..Len(recs) : recs[r].symbol = t}

TotalValue == SeqSum([r \in 1..Len(recs) |-> recs[r].value])

\* C8: the derived records hold exactly one record per distinct ticker of the
\* raw positions, carrying the sums of the integer-coerced values and share
\* counts of the positions of that ticker.
C8_OneRecordPerTickerWithSums ==
    hpc = "upsert" =>
        /\ \A t \in Tickers :
              Cardinality(RecordsOf(t)) = IF PositionsOf(t) = {} THEN 0 ELSE 1
        /\ \A r \in 1..Len(recs) :
              /\ recs[r].symbol \in Tickers
              /\ recs[r].value = CoercedAmount(recs[r].symbol, "Value")
              /\ recs[r].share = CoercedAmount(recs[r].symbol, "SharesPrnAmount")

C8_Witness ==
    /\ hpc = "upsert"
    /\ Len(recs) = 2
    /\ \E t \in Tickers :
          /\ Cardinality(PositionsOf(t)) = 2
          /\ \A r \in PositionsOf(t) :
                ToInt(infotable[r].Value) >= 1 /\ ToInt(infotable[r].SharesPrnAmount) >= 1

\* C9: every derived record carries the filing_id and the filing_date of the
\* filing it was derived from.
C9_RecordsCarryTheFilingIdAndDate ==
    hpc = "upsert" =>
        \A r \in 1..Len(recs) :
            /\ recs[r].filing_id = filing.filing_id
            /\ recs[r].filing_date = filing.filing_date

\* C10: when the derived records are not empty and their values sum to more
\* than 0, each percentage is value / total * 100 with total the sum of the
\* grouped values, and the percentages sum to 100.
C10_PercentagesSumTo100 ==
    (hpc = "upsert" /\ recs # <<>> /\ TotalValue > 0) =>
        /\ \A r \in 1..Len(recs) :
              /\ recs[r].percentage.defined
              /\ recs[r].percentage.den = recs[1].percentage.den
              /\ recs[r].percentage.num * TotalValue
                    = recs[r].value * 100 * recs[r].percentage.den
        /\ SeqSum([r \in 1..Len(recs) |-> recs[r].percentage.num])
              = 100 * recs[1].percentage.den

C10_Witness ==
    /\ hpc = "upsert"
    /\ Len(recs) = 2
    /\ \A r \in 1..Len(recs) : recs[r].value >= 1
    /\ \E r \in PositionsOf(NoTicker) : ToInt(infotable[r].Value) >= 1

\* The integer z next to x / Scale on the side of zero.
TruncatedTowardZero(x) ==
    IF x >= 0 THEN CHOOSE z \in 0..x : z * Scale <= x /\ x < (z + 1) * Scale
    ELSE CHOOSE z \in x..0 : (z - 1) * Scale < x /\ x <= z * Scale

\* The sum over the raw positions of ticker t of the truncated amounts of
\* column col, and the truncation of the sum of their raw amounts.
SumOfTruncated(t, col) ==
    SeqSum([r \in 1..Len(infotable) |->
               IF infotable[r].Ticker = t THEN TruncatedTowardZero(infotable[r][col]) ELSE 0])

TruncatedSum(t, col) ==
    TruncatedTowardZero(SeqSum([r \in 1..Len(infotable) |->
                                   IF infotable[r].Ticker = t THEN infotable[r][col] ELSE 0]))

\* C24: the value and the share count of a record are the sums of the amounts
\* of its positions, each truncated toward zero before the sum is taken.
C24_TruncatedBeforeGrouping ==
    hpc = "upsert" =>
        \A r \in 1..Len(recs) :
            /\ recs[r].value = SumOfTruncated(recs[r].symbol, "Value")
            /\ recs[r].share = SumOfTruncated(recs[r].symbol, "SharesPrnAmount")

C24_Witness ==
    /\ hpc = "upsert"
    /\ \E r \in 1..Len(recs) :
          /\ recs[r].value > 0
          /\ recs[r].value # TruncatedSum(recs[r].symbol, "Value")
          /\ recs[r].share # TruncatedSum(recs[r].symbol, "SharesPrnAmount")

\* C11: when the derived records are not empty and their values sum to 0,
\* every record has a defined percentage equal to 0.
C11_ZeroTotalGivesZeroPercentages ==
    (hpc = "upsert" /\ recs # <<>> /\ TotalValue = 0) =>
        \A r \in 1..Len(recs) :
            recs[r].percentage.defined /\ recs[r].percentage.num = 0

\* C12: the derived records are in descending order of value, and records of
\* equal value are in ascending order of ticker.
C12_OrderedByValueThenTicker ==
    hpc = "upsert" =>
        \A a, b \in 1..Len(recs) :
            a < b => \/ recs[a].value > recs[b].value
                     \/ (recs[a].value = recs[b].value /\ recs[a].symbol < recs[b].symbol)

\* C20: when no raw position has a negative value, every derived record has a
\* defined percentage between 0 and 100, a total of 0 included.
C20_PercentageWithinZeroAndHundred ==
    (hpc = "upsert" /\ \A p \in 1..Len(infotable) : infotable[p].Value >= 0) =>
        \A r \in 1..Len(recs) :
            /\ recs[r].percentage.defined
            /\ recs[r].percentage.den > 0
            /\ 0 <= recs[r].percentage.num
            /\ recs[r].percentage.num <= 100 * recs[r].percentage.den

(* ==================== properties of the holdings loop =================== *)
\* C13: a filing with zero raw positions derives zero records without an
\* error, and its upsert step leaves form_13f_holdings unchanged, raises
\* nothing and goes on.
C13_EmptyInfotableDerivesNothing ==
    (hpc = "upsert" /\ infotable = <<>>) => (recs = <<>> /\ hraised = "none")

C13_EmptyStepChangesNothing ==
    /\ (hpc = "derive" /\ infotable = <<>>) => (hpc' = "upsert" /\ hraised' = "none")
    /\ (hpc = "upsert" /\ infotable = <<>>)
          => /\ form_13f_holdings' = form_13f_holdings
             /\ hraised' = "none"
             /\ hpc' \in {"fetch", "done"}
             /\ h \in upserted'

C13_ZeroPositionsIsNoError ==
    [](C13_EmptyInfotableDerivesNothing) /\ [][C13_EmptyStepChangesNothing]_vars

C13_Witness ==
    /\ hpc = "done"
    /\ filing = latest_filings_list[h]
    /\ infotable = <<>>
    /\ h \in upserted
    /\ form_13f_holdings # <<>>

\* The rows of form_13f_holdings stored under filing_id f.
StoredUnder(f) ==
    {r \in 1..Len(form_13f_holdings) : form_13f_holdings[r].filing_id = f}

\* The filing whose upsert has just returned is still in filing and infotable.
JustUpserted ==
    /\ hpc \in {"fetch", "done"}
    /\ upserted # {}
    /\ hraised = "none"

\* C25: a backfill that ended without a failure has derived and upserted the
\* holdings of every filing the ranking query returned.
C25_EverySelectedFilingIsBackfilled ==
    (hpc = "done" /\ hraised = "none") =>
        \A j \in 1..Len(latest_filings_list) : j \in upserted

\* C26: every row of form_13f_holdings is stored under the filing_id of a
\* filing whose holdings were upserted, and the rows stored under the
\* filing_id of the filing just upserted are the aggregation of its own raw
\* positions: one row per ticker, with the sums of its coerced amounts.
C26_RowsAreKeyedByTheirOwnFiling ==
    /\ \A r \in 1..Len(form_13f_holdings) :
          \E j \in upserted : form_13f_holdings[r].filing_id = latest_filings_list[j].filing_id
    /\ JustUpserted =>
          /\ \A t \in Tickers :
                Cardinality({r \in StoredUnder(filing.filing_id) :
                                form_13f_holdings[r].symbol = t})
                   = IF PositionsOf(t) = {} THEN 0 ELSE 1
          /\ \A r \in StoredUnder(filing.filing_id) :
                form_13f_holdings[r].value = CoercedAmount(form_13f_holdings[r].symbol, "Value")

\* C27: no two rows of form_13f_holdings share (filing_id, symbol), and a
\* second run of the loop over the same selected filings and the unchanged
\* source ends with the table the first run left.
C27_BackfillIsIdempotent ==
    /\ \A r, q \in 1..Len(form_13f_holdings) :
          (/\ form_13f_holdings[r].filing_id = form_13f_holdings[q].filing_id
           /\ form_13f_holdings[r].symbol = form_13f_holdings[q].symbol) => r = q
    /\ (hrun >= 2 /\ hpc \in {"done", "raised"}) => form_13f_holdings = hsnapshot

C27_Witness ==
    /\ hrun = 2
    /\ hpc = "done"
    /\ hraised = "none"
    /\ Len(form_13f_holdings) >= 3
    /\ \E j \in upserted : hsource[j].second = "accepted"

\* C16: a holdings batch that the Data Store rejects, and whose fallback fails
\* too, stops nothing but its own filing: the loop is never left with a later
\* selected filing still to derive and upsert.
C16_FailedFallbackIsConfined ==
    (hpc = "raised" /\ hraised \in {"reformat", "store"}) => h = Len(latest_filings_list)

\* C17: no failure of the Filing Source while the holdings of a selected filing
\* are fetched and parsed escapes the loop, and the loop ends with the holdings
\* of every other selected filing upserted.
C17_SourceFailureDoesNotAbort ==
    /\ hraised # "source"
    /\ (hpc \in {"done", "raised"} /\ hraised \notin {"reformat", "store"}) =>
          \A j \in (SliceStart + 1)..Len(latest_filings_list) : j \in upserted \/ j = h

(* ==================== properties of the ranking query =================== *)
RowsOf(c) == {r \in 1..Len(form_13f_filing) : form_13f_filing[r].cik = c}

Returned(rows) == {rows[p].filing_id : p \in 1..Len(rows)}

Smaller(a, b) == IF a <= b THEN a ELSE b

\* C14: for every cik the query returns min(n, number of filings of the cik)
\* rows, n the limit of the query; every returned row is a row of the table,
\* no row is returned twice, and every returned row of a cik has a filing_date
\* that is at least the filing_date of every row of the cik left out.
C14_LatestFilingsPerCik ==
    calls >= 1 =>
        /\ \A p \in 1..Len(result) :
              /\ result[p].filing_id \in 1..Len(form_13f_filing)
              /\ result[p] = form_13f_filing[result[p].filing_id]
        /\ \A p, q \in 1..Len(result) : result[p].filing_id = result[q].filing_id => p = q
        /\ \A c \in 1..NumInst :
              /\ Cardinality(RowsOf(c) \cap Returned(result))
                     = Smaller(RankLimit, Cardinality(RowsOf(c)))
              /\ \A r \in RowsOf(c) \cap Returned(result) :
                 \A q \in RowsOf(c) \ Returned(result) :
                     form_13f_filing[r].filing_date >= form_13f_filing[q].filing_date

C14_Witness ==
    /\ calls >= 1
    /\ \E c \in 1..NumInst :
          /\ Cardinality(RowsOf(c)) > RankLimit
          /\ \E r \in RowsOf(c) \cap Returned(result) :
             \E q \in RowsOf(c) \ Returned(result) :
                 form_13f_filing[r].filing_date > form_13f_filing[q].filing_date

\* C15: two calls against the unchanged table select the same filings.
C15_SameSelectionOnEveryCall ==
    calls >= 2 => Returned(result) = Returned(previous)

(* ================= properties of the institution discovery ============== *)
\* C19: the batch built for the upsert holds at most one record per cik, and
\* institution_profile holds at most one row per cik.
C19_OneProfilePerCik ==
    /\ ppc \in {"records", "done"} =>
          \A p, q \in 1..Len(profile_recs) :
              profile_recs[p].cik = profile_recs[q].cik => p = q
    /\ \A p, q \in 1..Len(institution_profile) :
          institution_profile[p].cik = institution_profile[q].cik => p = q

(* ======================= properties of the DataPager ==================== *)
\* C28: current_page stays within 1..total_pages; next() on the last page and
\* previous() on the first page return None and leave current_page unchanged;
\* previous() right after a next() that moved returns to the page before it.
C28_PageWithinRange == current_page \in 1..total_pages

C28_EndsReturnNone ==
    /\ (last_call' = "next" /\ current_page = total_pages)
          => (returned'.none /\ current_page' = current_page)
    /\ (last_call' = "previous" /\ current_page = 1)
          => (returned'.none /\ current_page' = current_page)
    /\ (last_call' = "next" /\ current_page < total_pages)
          => (~returned'.none /\ current_page' = current_page + 1)
    /\ (last_call = "next" /\ page_before < total_pages /\ last_call' = "previous")
          => (current_page' = page_before /\ returned' = current(page_before))

C28_PagerStaysWithinItsPages ==
    [](C28_PageWithinRange) /\ [][C28_EndsReturnNone]_vars

C28_Witness ==
    /\ last_call = "previous"
    /\ total_pages >= 3
    /\ current_page = 2
    /\ page_before = 3
    /\ ~returned.none

RECURSIVE Concat(_)
Concat(pages) == IF pages = <<>> THEN <<>> ELSE Head(pages) \o Concat(Tail(pages))

\* next() has just returned None at the end of a walk from page 1 made of
\* next() calls alone.
WalkEnded == last_call = "next" /\ returned.none /\ walk # <<>>

\* C29: over non-empty data, the pages of a walk from page 1 by next() until
\* it returns None hold every row exactly once, in order, and none is empty.
C29_PagesPartitionTheData ==
    (WalkEnded /\ data # <<>>) =>
        /\ Concat(walk) = data
        /\ \A p \in 1..Len(walk) : walk[p] # <<>>
====
